---- MODULE Spec2Model ----
(***************************************************************************)
(* The realtime channel (the useWebSocket hook) and the server-state cache *)
(* (the react-query hooks over the memory REST endpoints) of the           *)
(* extended-memory web dashboard.                                          *)
(***************************************************************************)
EXTENDS Integers, Sequences, FiniteSets, TLC

(* ------------------------------ bounds --------------------------------- *)
\* live sockets plus pending reconnect timers a caller may pile up
MaxLive == 2
\* inbound payloads the transport delivers in one behaviour
MaxMsgs == 2
\* HTTP GETs the cache's query functions issue in one behaviour
MaxHttp == 3
\* executeSearch calls made on top of a search history built before
MaxSearches == 2

(* ------------------------- program constants --------------------------- *)
MaxReconnectAttempts == 5
ReconnectInterval == 3000
Reconnect == TRUE
\* defaultOptions.queries.retry of the QueryClient
Retry == 2

SocketStatuses == {"CONNECTING", "OPEN", "CLOSING", "ABORTING", "CLOSED"}
ConnectionStates == {"connecting", "connected", "disconnected", "error"}
MessageTypes == {"memory_created", "memory_deleted"}
\* what the transport hands to ws.onmessage as event.data
Payloads ==
    {[wellFormed |-> TRUE, type |-> ty] : ty \in MessageTypes}
        \cup {[wellFormed |-> FALSE, type |-> "memory_created"]}
NoPayload == [wellFormed |-> FALSE, type |-> "none"]
HistCap == MaxReconnectAttempts + 1
\* a setTimeout handle whose timer has fired
FiredHandle == MaxLive + 1

VARIABLES
    wsRef,                \* wsRef.current: "null", or the referenced WebSocket, given
                          \* by its status
    sockets,              \* the WebSockets the hook constructed and no longer
                          \* references, counted by status
    dispatch,             \* an error event was delivered and the close event of that
                          \* socket (the CLOSED one) follows in the same task
    timers,               \* pending setTimeout callbacks, oldest first, by their delay
    reconnectTimeoutRef,  \* reconnectTimeoutRef.current: 0 = null, i = the handle of
                          \* the i-th pending timer, FiredHandle = of one that fired
    reconnectAttempts,    \* reconnectAttemptsRef.current
    isConnected,
    connectionState,
    lastMessage,
    mounted,              \* the init effect has run and its cleanup has not
    enabled,              \* options.enabled of the current render
    urlValid,             \* whether new URL / new WebSocket accept the hook's url
    transported,          \* payloads the transport has delivered, in order
    observed,             \* messages handed to the onMessage observer, in order
    userDisconnected,     \* the caller's last connect/disconnect request was a disconnect
    hist,                 \* counts of the run since mount while only transport events happen
    op,                   \* the caller's operation or delivery that produced this
                          \* state ("event" for the effect, timer and socket events)
    wire                  \* what was written to the socket wsRef references, and the
                          \* effects of the ws.onopen that produced this state

chanVars == <<wsRef, sockets, dispatch, timers, reconnectTimeoutRef, reconnectAttempts,
              isConnected, connectionState, lastMessage, mounted, enabled, urlValid,
              transported, observed, userDisconnected, hist, op, wire>>

VARIABLES
    queries,              \* the QueryCache: the Query of each key, if one exists
    http,                 \* HTTP GETs sent by query functions and not yet answered
    httpCount,            \* HTTP GETs sent so far; the next one gets id httpCount + 1
    obs,                  \* per component: the Query its useQuery observer is
                          \* subscribed to, by key and Query id
    got,                  \* per component: the data its observer last delivered
    cop,                  \* the mutation outcome or message the last step handled
    pages,                \* which of the KeySets the pages of this behaviour read
    appSeen,              \* how many messages the hook had set as lastMessage when
                          \* App's message effect last ran
    api                   \* the failed request the shared axios client handles: the
                          \* error, the toasts shown for it, the promise's outcome

VARIABLES
    searchRequest,        \* useAdvancedSearch: the searchRequest state
    renderedRequest,      \* the searchRequest of the last render, which the
                          \* executeSearch callback closes over
    searchHistory,        \* useAdvancedSearch: the searchHistory state
    searchLog,            \* the finalRequest of every executeSearch call, in call order
    searchCalls           \* executeSearch calls made since Init

searchVars == <<searchRequest, renderedRequest, searchHistory, searchLog, searchCalls>>

cacheVars == <<queries, http, httpCount, obs, got, cop, pages, appSeen, api, searchVars>>

vars == <<chanVars, cacheVars>>

(* ------------------------------ helpers -------------------------------- *)
\* WebSocket.readyState of a socket status
ReadyState(status) ==
    CASE status = "CONNECTING" -> "CONNECTING"
      [] status = "OPEN" -> "OPEN"
      [] status \in {"CLOSING", "ABORTING"} -> "CLOSING"
      [] OTHER -> "CLOSED"

\* the hook's refs and state as one value the handlers transform
St ==
    [wsRef |-> wsRef, sockets |-> sockets, timers |-> timers,
     reconnectTimeoutRef |-> reconnectTimeoutRef,
     reconnectAttempts |-> reconnectAttempts,
     isConnected |-> isConnected, connectionState |-> connectionState]

Apply(st) ==
    /\ wsRef' = st.wsRef
    /\ sockets' = st.sockets
    /\ timers' = st.timers
    /\ reconnectTimeoutRef' = st.reconnectTimeoutRef
    /\ reconnectAttempts' = st.reconnectAttempts
    /\ isConnected' = st.isConnected
    /\ connectionState' = st.connectionState

\* a socket of the hook: the one wsRef references (r) or an unreferenced one
HasSocket(st, r, status) ==
    IF r THEN st.wsRef = status ELSE st.sockets[status] > 0

\* the hook's state with wsRef.current assigned v: the socket it referenced stays
\* alive, unreferenced
AssignWsRef(st, v) ==
    IF st.wsRef = "null"
    THEN [st EXCEPT !.wsRef = v]
    ELSE [st EXCEPT !.wsRef = v, !.sockets[st.wsRef] = @ + 1]

\* the transport moves a socket from one status to another
SetStatus(st, r, from, to) ==
    IF r THEN [st EXCEPT !.wsRef = to]
    ELSE [st EXCEPT !.sockets[from] = @ - 1, !.sockets[to] = @ + 1]

\* the socket is gone: closed, its close event delivered
DropSocket(st, r, status) ==
    IF r THEN [st EXCEPT !.wsRef = "null"]
    ELSE [st EXCEPT !.sockets[status] = @ - 1]

NumSockets(st, statuses) ==
    Cardinality({x \in statuses : st.wsRef = x})
        + Cardinality({<<x, i>> \in statuses \X (1..MaxLive) : i <= st.sockets[x]})

Tokens(st) == NumSockets(st, SocketStatuses) + Len(st.timers)

\* sequence s without its i-th element
RemoveAt(s, i) == [j \in 1..(Len(s) - 1) |-> IF j < i THEN s[j] ELSE s[j + 1]]

(* --------------------- useWebSocket: the handlers ----------------------- *)
\* connect(), called through a closure that captured options.enabled = en
Connect(st, en) ==
    IF ~en \/ (st.wsRef # "null" /\ ReadyState(st.wsRef) = "CONNECTING")
    THEN st
    ELSE IF ~urlValid
    THEN [st EXCEPT !.connectionState = "error"]
    ELSE AssignWsRef([st EXCEPT !.connectionState = "connecting"], "CONNECTING")

\* whether Connect(st, en) constructs a socket
Constructs(st, en) ==
    /\ en
    /\ ~(st.wsRef # "null" /\ ReadyState(st.wsRef) = "CONNECTING")
    /\ urlValid

\* WebSocket.close() on a socket of the given status
WsClose(status) ==
    CASE status = "CONNECTING" -> "ABORTING"
      [] status = "OPEN" -> "CLOSING"
      [] OTHER -> status

\* disconnect()
Disconnect(st) ==
    LET st1 == IF st.reconnectTimeoutRef # 0
               THEN [st EXCEPT
                       !.timers = IF st.reconnectTimeoutRef = FiredHandle
                                  THEN @
                                  ELSE RemoveAt(@, st.reconnectTimeoutRef),
                       !.reconnectTimeoutRef = 0]
               ELSE st
        st2 == IF st1.wsRef # "null"
               THEN AssignWsRef([st1 EXCEPT !.wsRef = WsClose(@)], "null")
               ELSE st1
    IN [st2 EXCEPT !.isConnected = FALSE, !.connectionState = "disconnected"]

\* an onopen that leaves the retry counter as it is
OnOpenBodyKeepsAttempts(st, r) ==
    [SetStatus(st, r, "CONNECTING", "OPEN") EXCEPT
        !.isConnected = TRUE,
        !.connectionState = "connected"]

\* ws.onopen of a socket
OnOpenBody(st, r) ==
    [SetStatus(st, r, "CONNECTING", "OPEN") EXCEPT
        !.isConnected = TRUE,
        !.connectionState = "connected",
        !.reconnectAttempts = 0]

\* a reconnect delay that grows with the attempt number
ReconnectDelayBackoff(attempts) == ReconnectInterval * attempts

\* the delay handed to setTimeout by ws.onclose
ReconnectDelay(attempts) == ReconnectInterval

\* a ceiling check that lets one attempt too many through
ShouldReconnectOffByOne(attempts) == Reconnect /\ attempts <= MaxReconnectAttempts

\* whether ws.onclose schedules a reconnect
ShouldReconnect(attempts) == Reconnect /\ attempts < MaxReconnectAttempts

\* ws.onclose of a socket of the given status
OnCloseBody(st, r, status) ==
    LET st1 == [AssignWsRef(DropSocket(st, r, status), "null") EXCEPT
                    !.isConnected = FALSE,
                    !.connectionState = "disconnected"]
    IN IF ShouldReconnect(st1.reconnectAttempts)
       THEN LET n == st1.reconnectAttempts + 1
            IN [st1 EXCEPT !.reconnectAttempts = n,
                           !.timers = Append(@, ReconnectDelay(n)),
                           !.reconnectTimeoutRef = Len(st1.timers) + 1]
       ELSE st1

\* ws.onerror of a socket: the transport has already failed the connection
OnErrorBody(st, r, status) ==
    [SetStatus(st, r, status, "CLOSED") EXCEPT !.connectionState = "error"]

\* the reconnect timer's callback: connect() of the closure that scheduled it
TimerBody(st) ==
    Connect([st EXCEPT
               !.timers = Tail(@),
               !.reconnectTimeoutRef =
                   IF @ \in {0, FiredHandle} THEN @
                   ELSE IF @ = 1 THEN FiredHandle ELSE @ - 1],
            TRUE)

\* JSON.parse(event.data): a message, or a thrown SyntaxError
JSONParse(raw) ==
    IF raw.wellFormed THEN [ok |-> TRUE, value |-> raw.type]
    ELSE [ok |-> FALSE, value |-> "SyntaxError"]

\* an onmessage without the try/catch around JSON.parse: what arrived is forwarded
OnMessageBodyUnguarded(m, raw) ==
    [lastMessage |-> raw.type, observed |-> Append(m.observed, raw.type)]

\* an onmessage that skips a message equal to the one it saw last
OnMessageBodySkipRepeat(m, raw) ==
    LET parsed == JSONParse(raw)
    IN IF parsed.ok /\ parsed.value # m.lastMessage
       THEN [lastMessage |-> parsed.value,
             observed |-> Append(m.observed, parsed.value)]
       ELSE m

\* ws.onmessage with event.data = raw, on m = [lastMessage, observed]
OnMessageBody(m, raw) ==
    LET parsed == JSONParse(raw)
    IN IF parsed.ok
       THEN [lastMessage |-> parsed.value,
             observed |-> Append(m.observed, parsed.value)]
       ELSE m

\* a sendMessage that only checks that a socket is referenced
SendMessageAnyState(st) ==
    IF st.wsRef # "null"
    THEN [ret |-> TRUE, tx |-> TRUE]
    ELSE [ret |-> FALSE, tx |-> FALSE]

\* sendMessage(message): its return value, and whether ws.send wrote the message
SendMessage(st) ==
    IF st.wsRef # "null" /\ ReadyState(st.wsRef) = "OPEN"
    THEN [ret |-> TRUE, tx |-> TRUE]
    ELSE [ret |-> FALSE, tx |-> FALSE]

(* ------------------- useWebSocket: outbound messages -------------------- *)
\* generateClientId() of the n-th render: no two calls return the same id
GenerateClientId(n) == <<"client", n>>

\* clientIdRef.current: useRef keeps the initial value of the first render
ClientIdRef == GenerateClientId(1)

\* what the caller passes as options.onOpen: nothing, an observer that only looks,
\* or one that calls the returned sendMessage
OnOpenObservers == {"absent", "silent", "sends"}

\* an onopen that sends no connection_info
OnOpenEffectsNoInfo(st, r, observer) ==
    <<"connected">> \o (IF observer = "absent" THEN <<>> ELSE <<"onOpen">>)

\* ws.onopen of a socket, st being the hook's state once the socket is OPEN: its
\* effects in source order. The observer's sendMessage writes to the socket wsRef
\* references, which is this socket if r
OnOpenEffects(st, r, observer) ==
    <<"connected">>
        \o (IF observer = "absent" THEN <<>> ELSE <<"onOpen">>)
        \o (IF observer = "sends" /\ SendMessage(st).tx
            THEN <<IF r THEN "message" ELSE "message_elsewhere">>
            ELSE <<>>)
        \o <<"connection_info">>

\* nothing was written to the socket wsRef references, or wsRef.current is null
NoWire == [url |-> <<>>, first |-> "none", infos |-> 0, info |-> <<>>,
           effects |-> <<>>]

\* the writes among the effects of an onopen
Writes(effects) ==
    SelectSeq(effects, LAMBDA e : e \in {"message", "connection_info"})

\* the record of the referenced socket after a step that left wsRef.current = ref
\* and wrote nothing: a socket just constructed has its URL and no message
WireOf(w, ref) ==
    CASE ref = "null" -> NoWire
      [] ref = "CONNECTING" -> [NoWire EXCEPT !.url = ClientIdRef]
      [] OTHER -> [w EXCEPT !.effects = <<>>]

\* the record after sendMessage, which wrote a message if tx
WireOnSend(w, tx) ==
    [w EXCEPT !.first = IF tx /\ @ = "none" THEN "message" ELSE @,
              !.effects = <<>>]

\* the record after the onopen of a socket with the given effects
WireOnOpen(w, r, effects) ==
    IF r
    THEN [w EXCEPT
            !.first = IF Writes(effects) = <<>> THEN @
                      ELSE IF Head(Writes(effects)) = "message"
                      THEN "observer_message"
                      ELSE "connection_info",
            !.infos = Len(SelectSeq(effects, LAMBDA e : e = "connection_info")),
            !.info = ClientIdRef,
            !.effects = effects]
    ELSE [w EXCEPT !.effects = effects]

(* ------------------------- observation variables ----------------------- *)
Op(name, tx, ret, payload) ==
    [name |-> name, tx |-> tx, ret |-> ret, payload |-> payload]

HistOff == [pure |-> FALSE, opens |-> 0, closes |-> 0, sched |-> 0]

\* the run's counts after a transport event, dropped once a count passes HistCap
HistStep(h, dOpen, dClose, dSched) ==
    IF ~h.pure \/ h.opens + dOpen > HistCap \/ h.closes + dClose > HistCap
    THEN HistOff
    ELSE [pure |-> TRUE, opens |-> h.opens + dOpen, closes |-> h.closes + dClose,
          sched |-> h.sched + dSched]

(* ------------------- the server-state cache: the keys ------------------- *)
\* the assistant ids in use; NoAssistant stands for an assistantId left undefined
Assistants == {7, 9}
NoAssistant == 0
\* the assistant_id of the filters {assistant_id: f} a list is read with
Filters == {3} \cup Assistants
MemoryIds == {42}
\* the limit arguments of the ranked views; NoLimit for a read without one
Limits == {5, 10}
NoLimit == 0

\* MEMORY_KEYS
MemoryKeysAll == <<"memories">>
MemoryKeysLists == Append(MemoryKeysAll, "list")
MemoryKeysList(filters) == Append(MemoryKeysLists, filters)
MemoryKeysDetails == Append(MemoryKeysAll, "detail")
MemoryKeysDetail(id) == Append(MemoryKeysDetails, id)
MemoryKeysRelated(id) == MemoryKeysAll \o <<"related", id>>
MemoryKeysStats(assistantId) == MemoryKeysAll \o <<"stats", assistantId>>
MemoryKeysRecent(assistantId) == MemoryKeysAll \o <<"recent", assistantId>>
MemoryKeysImportant(assistantId) == MemoryKeysAll \o <<"important", assistantId>>
MemoryKeysAccessed(assistantId) == MemoryKeysAll \o <<"accessed", assistantId>>

\* SEARCH_KEYS
SearchKeysRecentQueries(assistantId) == <<"search", "recent", assistantId>>

\* the keys the pages of one behaviour read
KeySets ==
    [reads |-> {MemoryKeysList(3), MemoryKeysDetail(42)},
     edits |-> {MemoryKeysList(3), MemoryKeysDetail(42)},
     opens |-> {MemoryKeysDetail(42), MemoryKeysAccessed(NoAssistant)},
     adds |-> {MemoryKeysList(7), MemoryKeysDetail(42)},
     lists |-> {MemoryKeysList(7), MemoryKeysList(9)},
     stats |-> {MemoryKeysStats(7), MemoryKeysStats(9)},
     recents |-> {MemoryKeysRecent(7), MemoryKeysRecent(NoAssistant)},
     related |-> {MemoryKeysRelated(42)},
     important |-> {MemoryKeysImportant(7)},
     accessed |-> {MemoryKeysAccessed(7)},
     recent |-> {MemoryKeysRecent(9)},
     deletes |-> {MemoryKeysStats(7), SearchKeysRecentQueries(NoAssistant)},
     views |-> {MemoryKeysAccessed(7), MemoryKeysAccessed(NoAssistant)}]

Keys == KeySets[pages]

\* the components that render read hooks on those pages
PageComponents ==
    [p \in DOMAIN KeySets |-> IF p = "reads" THEN {"A", "B"} ELSE {"A"}]

Components == PageComponents[pages]

\* the mutation those pages call, as <<kind, memory id, assistant id>>; create
\* and update are answered with the record, whose id and assistant the server
\* reports
PageWrites ==
    [p \in DOMAIN KeySets |->
        CASE p \in {"reads", "deletes"} -> {<<"delete", 42, 0>>}
          [] p = "edits" -> {<<"update", 42, 7>>}
          [] p \in {"opens", "views"} -> {<<"recordAccess", 42, 0>>}
          [] p \in {"adds", "lists", "stats", "recents"} -> {<<"create", 42, 7>>}
          [] OTHER -> {<<"bulkDelete", 0, 0>>}]

WriteArgs == PageWrites[pages]

\* the limit arguments those pages pass to the ranked views
PageLimits ==
    [p \in DOMAIN KeySets |->
        IF p \in {"related", "important", "accessed", "recent"} THEN Limits ELSE {10}]

\* query filters without a queryKey: they match every query
AnyKey == <<>>

\* partialMatchKey(queryKey, filterKey): the filter's key is a prefix of the query's
PartialMatchKey(queryKey, filterKey) ==
    /\ Len(filterKey) <= Len(queryKey)
    /\ \A i \in 1..Len(filterKey) : queryKey[i] = filterKey[i]

(* ----------------- the server-state cache: react-query ------------------ *)
\* no Query is cached for the key. data is the id of the HTTP response it came
\* from, limit the limit argument that response was fetched with, fnLimit the one
\* of the Query's current query function, old tells that the data was requested
\* before a mutation that invalidated the key succeeded
AbsentQuery ==
    [exists |-> FALSE, qid |-> 0, data |-> 0, limit |-> NoLimit, fnLimit |-> NoLimit,
     stale |-> FALSE, invalidated |-> FALSE, old |-> FALSE,
     fetching |-> FALSE, failureCount |-> 0, status |-> "idle"]

\* a Query built on the first read of its key; qid tells it from earlier Queries of
\* the key
NewQuery(qid) == [AbsentQuery EXCEPT !.exists = TRUE, !.qid = qid]

NoObserver == [key |-> <<>>, qid |-> 0, limit |-> NoLimit]

\* the cache as one value the operations transform
Cs == [queries |-> queries, http |-> http, httpCount |-> httpCount, obs |-> obs,
       got |-> got]

ApplyCs(cs) ==
    /\ queries' = cs.queries
    /\ http' = cs.http
    /\ httpCount' = cs.httpCount
    /\ obs' = cs.obs
    /\ got' = cs.got

\* the components whose observer is subscribed to the Query now cached for k
Observers(cs, k) ==
    {c \in Components : /\ cs.queries[k].exists
                        /\ cs.obs[c].key = k
                        /\ cs.obs[c].qid = cs.queries[k].qid}

\* the unanswered HTTP GETs sent for the Query now cached for k
LiveCalls(cs, k) ==
    {r \in cs.http : /\ r.key = k
                     /\ cs.queries[k].exists
                     /\ r.qid = cs.queries[k].qid}

\* the query function runs: memoryService sends an HTTP GET, which nothing cancels
SendGet(cs, k) ==
    [cs EXCEPT !.http = @ \cup {[id |-> cs.httpCount + 1, key |-> k,
                                 qid |-> cs.queries[k].qid,
                                 limit |-> cs.queries[k].fnLimit,
                                 old |-> FALSE]},
               !.httpCount = @ + 1]

\* Query.fetch: a fetch in flight is joined, otherwise the query function runs
StartFetch(cs, k) ==
    IF cs.queries[k].fetching
    THEN cs
    ELSE SendGet([cs EXCEPT !.queries[k].fetching = TRUE,
                            !.queries[k].failureCount = 0,
                            !.queries[k].status =
                                IF cs.queries[k].data = 0 THEN "loading" ELSE @],
                 k)

\* Query.isStaleByTime(staleTime): no data yet, invalidated, or older than staleTime
IsStale(q) == q.data = 0 \/ q.invalidated \/ q.stale

\* useQuery(key, queryFn, {enabled: en}) rendered by component c, the query
\* function closing over limit: the observer is subscribed to the key's Query,
\* built if there is none, and an observer new to that Query fetches with its
\* query function if the Query is stale
UseQuery(cs, c, k, limit, en) ==
    LET built == IF cs.queries[k].exists
                 THEN cs
                 ELSE [cs EXCEPT !.queries[k] = NewQuery(cs.httpCount + 1)]
        fresh == cs.obs[c].key # k \/ cs.obs[c].qid # built.queries[k].qid
        fetched == IF en /\ fresh /\ IsStale(built.queries[k])
                      /\ ~built.queries[k].fetching
                   THEN StartFetch([built EXCEPT !.queries[k].fnLimit = limit], k)
                   ELSE built
    IN [fetched EXCEPT !.obs[c] = [key |-> k, qid |-> fetched.queries[k].qid,
                                   limit |-> limit],
                       !.got[c] = fetched.queries[k].data]

\* the answer to HTTP GET r arrives; one sent for a Query that was removed since
\* is dropped
Respond(cs, r, ok) ==
    LET k == r.key
        cs1 == [cs EXCEPT !.http = @ \ {r}]
    IN IF r \notin LiveCalls(cs, k)
       THEN cs1
       ELSE IF ok
       THEN [cs1 EXCEPT
               !.queries[k].data = r.id,
               !.queries[k].limit = r.limit,
               !.queries[k].old = r.old,
               !.queries[k].status = "success",
               !.queries[k].fetching = FALSE,
               !.queries[k].failureCount = 0,
               !.queries[k].stale = FALSE,
               !.queries[k].invalidated = FALSE,
               !.got = [c \in Components |->
                           IF c \in Observers(cs, k) THEN r.id ELSE @[c]]]
       ELSE IF cs.queries[k].failureCount < Retry
       THEN [cs1 EXCEPT !.queries[k].failureCount = @ + 1]
       ELSE [cs1 EXCEPT !.queries[k].status = "error",
                        !.queries[k].fetching = FALSE]

\* queryClient.setQueryData(key, record), record being the body of response id
SetQueryData(cs, k, id) ==
    IF k \notin Keys THEN cs
    ELSE
    [cs EXCEPT
       !.queries[k] = [(IF @.exists THEN @ ELSE NewQuery(id)) EXCEPT
                          !.data = id, !.limit = NoLimit, !.old = FALSE,
                          !.status = "success", !.stale = FALSE,
                          !.invalidated = FALSE],
       !.got = [c \in Components |->
                   IF c \in Observers(cs, k) THEN id ELSE @[c]]]

\* queryClient.removeQueries(filterKey)
RemoveQueries(cs, filterKey) ==
    [cs EXCEPT !.queries = [k \in Keys |->
                               IF PartialMatchKey(k, filterKey) THEN AbsentQuery
                               ELSE @[k]]]

RECURSIVE RefetchQueries(_, _)
\* queryClient.refetchQueries over the Queries of the keys ks
RefetchQueries(cs, ks) ==
    IF ks = {} THEN cs
    ELSE LET k == CHOOSE x \in ks : TRUE
         IN RefetchQueries(StartFetch(cs, k), ks \ {k})

\* queryClient.invalidateQueries(filterKey): the matching Queries are marked
\* invalidated and those with observers are refetched
InvalidateQueries(cs, filterKey) ==
    LET hit == {k \in Keys : cs.queries[k].exists /\ PartialMatchKey(k, filterKey)}
        cs1 == [cs EXCEPT
                  !.queries = [k \in Keys |->
                                  IF k \in hit
                                  THEN [@[k] EXCEPT !.invalidated = TRUE,
                                                    !.old = (@ \/ cs.queries[k].data # 0)]
                                  ELSE @[k]],
                  !.http = {IF r.key \in hit THEN [r EXCEPT !.old = TRUE] ELSE r :
                               r \in @}]
    IN RefetchQueries(cs1, {k \in hit : Observers(cs1, k) # {}})

(* ------------------- the server-state cache: the hooks ------------------ *)
\* a useMemories that also calls memoryService.getMemories itself on every render
UseMemoriesUncached(cs, c, filters) ==
    SendGet(UseQuery(cs, c, MemoryKeysList(filters), NoLimit, TRUE),
            MemoryKeysList(filters))

\* useMemories(filters) rendered by component c
UseMemories(cs, c, filters) ==
    UseQuery(cs, c, MemoryKeysList(filters), NoLimit, TRUE)

\* useMemory(id) rendered by component c
UseMemory(cs, c, id) ==
    UseQuery(cs, c, MemoryKeysDetail(id), NoLimit, id # 0)

\* useRelatedMemories(id, limit)
UseRelatedMemories(cs, c, id, limit) ==
    UseQuery(cs, c, MemoryKeysRelated(id), limit, id # 0)

\* useMemoryStats(assistantId)
UseMemoryStats(cs, c, assistantId) ==
    UseQuery(cs, c, MemoryKeysStats(assistantId), NoLimit, assistantId # NoAssistant)

\* useRecentMemories(assistantId, limit)
UseRecentMemories(cs, c, assistantId, limit) ==
    UseQuery(cs, c, MemoryKeysRecent(assistantId), limit, TRUE)

\* useMostImportantMemories(assistantId, limit)
UseMostImportantMemories(cs, c, assistantId, limit) ==
    UseQuery(cs, c, MemoryKeysImportant(assistantId), limit, TRUE)

\* useMostAccessedMemories(assistantId, limit)
UseMostAccessedMemories(cs, c, assistantId, limit) ==
    UseQuery(cs, c, MemoryKeysAccessed(assistantId), limit, TRUE)

\* the hooks of the ranked views, which take a limit argument
RankedHooks == {"useRelatedMemories", "useRecentMemories", "useMostImportantMemories",
                "useMostAccessedMemories"}

RankedKey(hook, arg) ==
    CASE hook = "useRelatedMemories" -> MemoryKeysRelated(arg)
      [] hook = "useRecentMemories" -> MemoryKeysRecent(arg)
      [] hook = "useMostImportantMemories" -> MemoryKeysImportant(arg)
      [] OTHER -> MemoryKeysAccessed(arg)

UseRanked(cs, c, hook, arg, limit) ==
    CASE hook = "useRelatedMemories" -> UseRelatedMemories(cs, c, arg, limit)
      [] hook = "useRecentMemories" -> UseRecentMemories(cs, c, arg, limit)
      [] hook = "useMostImportantMemories" ->
             UseMostImportantMemories(cs, c, arg, limit)
      [] OTHER -> UseMostAccessedMemories(cs, c, arg, limit)

(* ----------------- the server-state cache: the mutations ---------------- *)
MutationKinds == {"create", "update", "delete", "recordAccess", "bulkDelete"}

\* an onSuccess that invalidates only the list filtered by the new memory's
\* assistant
CreateMemoryOnSuccessOwnList(cs, newMemory) ==
    InvalidateQueries(
        InvalidateQueries(
            InvalidateQueries(cs, MemoryKeysList(newMemory.assistant_id)),
            MemoryKeysStats(newMemory.assistant_id)),
        MemoryKeysRecent(newMemory.assistant_id))

\* useCreateMemory: onSuccess(newMemory)
CreateMemoryOnSuccess(cs, newMemory) ==
    InvalidateQueries(
        InvalidateQueries(
            InvalidateQueries(cs, MemoryKeysLists),
            MemoryKeysStats(newMemory.assistant_id)),
        MemoryKeysRecent(newMemory.assistant_id))

\* useUpdateMemory: onSuccess(updatedMemory)
UpdateMemoryOnSuccess(cs, updatedMemory) ==
    InvalidateQueries(
        InvalidateQueries(
            SetQueryData(cs, MemoryKeysDetail(updatedMemory.id), updatedMemory.response),
            MemoryKeysLists),
        MemoryKeysStats(updatedMemory.assistant_id))

\* useDeleteMemory: onSuccess(_, deletedId). MEMORY_KEYS.stats is passed uncalled:
\* a function is no query key, so that call carries no queryKey
DeleteMemoryOnSuccess(cs, deletedId) ==
    InvalidateQueries(
        InvalidateQueries(RemoveQueries(cs, MemoryKeysDetail(deletedId)),
                          MemoryKeysLists),
        AnyKey)

\* useRecordAccess: onSuccess(_, id)
RecordAccessOnSuccess(cs, id) ==
    InvalidateQueries(InvalidateQueries(cs, MemoryKeysDetail(id)),
                      MemoryKeysAccessed(NoAssistant))

\* useBulkDeleteMemories: onSuccess(result)
BulkDeleteOnSuccess(cs) ==
    InvalidateQueries(cs, MemoryKeysAll)

\* the onSuccess of a mutation whose remote write, HTTP request rid, was answered;
\* create and update are answered with the record [id, assistant_id]
OnSuccess(cs, kind, id, assistantId, rid) ==
    LET record == [id |-> id, assistant_id |-> assistantId, response |-> rid]
    IN CASE kind = "create" -> CreateMemoryOnSuccess(cs, record)
         [] kind = "update" -> UpdateMemoryOnSuccess(cs, record)
         [] kind = "delete" -> DeleteMemoryOnSuccess(cs, id)
         [] kind = "recordAccess" -> RecordAccessOnSuccess(cs, id)
         [] OTHER -> BulkDeleteOnSuccess(cs)

\* an onError that invalidates as onSuccess does
MutationOnErrorInvalidating(cs, kind) == InvalidateQueries(cs, MemoryKeysAll)

\* the onError of the mutation hooks: each shows a toast and logs the error,
\* useRecordAccess has none; the cache is not used
MutationOnError(cs, kind) == cs

\* the toasts of the onError of the mutation hooks, which useRecordAccess does
\* not have: toast.error(error?.message || 'Failed to ...')
MutationOnErrorToasts(kind) ==
    IF kind = "recordAccess" THEN <<>> ELSE <<[category |-> "mutation", text |-> kind]>>

\* useMutation's retry option, which no hook and no default sets
MutationRetry == 0

\* a mutation retried as a read is
WritesSentRetrying(ok) == IF ok THEN 1 ELSE 1 + Retry

\* the remote writes a mutation sends when its first one is answered ok or with an
\* error and every retry fails as well
WritesSent(ok) == IF ok THEN 1 ELSE 1 + MutationRetry

\* what the last step of the cache was, for the steps of mutations and messages:
\* the outcome, the mutation, and the number of remote writes it sent
Cop(name, kind, id, assistantId, sent) ==
    [name |-> name, kind |-> kind, id |-> id, assistant_id |-> assistantId,
     sent |-> sent]

NoCop == Cop("none", "none", 0, NoAssistant, 0)

(* -------------------- the shared REST client (api.ts) ------------------- *)
\* response statuses the server answers a failed request with
Statuses == {400, 401, 403, 404, 422, 429, 500, 503}

\* data.details of an error body: missing, a truthy value that is no array, or an
\* array of field errors
DetailsValues ==
    {[truthy |-> FALSE, array |-> FALSE, items |-> <<>>],
     [truthy |-> TRUE, array |-> FALSE, items |-> <<>>],
     [truthy |-> TRUE, array |-> TRUE, items |-> <<>>],
     [truthy |-> TRUE, array |-> TRUE, items |-> <<"title: required">>],
     [truthy |-> TRUE, array |-> TRUE,
      items |-> <<"title: required", "content: too long">>]}

\* error.response.data: undefined, or a body whose detail and error are a string
\* or missing ("")
NoData == [defined |-> FALSE, detail |-> "", error |-> "",
           details |-> [truthy |-> FALSE, array |-> FALSE, items |-> <<>>]]

Bodies ==
    {NoData} \cup
    [defined : {TRUE}, detail : {"", "Memory not found"}, error : {"", "Invalid input"},
     details : DetailsValues]

\* the AxiosError a failed request rejects with: the server answered with an error
\* status, no response was received, or the request could not be set up
AxiosErrors ==
    [kind : {"response"}, status : Statuses, data : Bodies]
        \cup {[kind |-> k, status |-> 0, data |-> NoData] : k \in {"request", "setup"}}

NoApi == [error |-> [kind |-> "none", status |-> 0, data |-> NoData],
          toasts |-> <<>>, outcome |-> "idle", caller |-> "none", hook |-> <<>>]

\* a toast.error call
Toast(category, text) == [category |-> category, text |-> text]

\* a || b on strings
OrElse(a, b) == IF a # "" THEN a ELSE b

\* the toasts of the 422 branch
ValidationToasts(data) ==
    IF data.details.truthy /\ data.details.array
    THEN [i \in 1..Len(data.details.items) |-> Toast("validation", data.details.items[i])]
    ELSE <<Toast("validation", OrElse(data.error, "Validation error"))>>

\* the toasts the response interceptor's error handler shows for an error
InterceptorToasts(error) ==
    CASE error.kind = "response" /\ error.status = 400 ->
            <<Toast("bad_request", OrElse(error.data.detail, "Bad request"))>>
      [] error.kind = "response" /\ error.status = 401 ->
            <<Toast("authentication", "Authentication required")>>
      [] error.kind = "response" /\ error.status = 403 ->
            <<Toast("access", "Access denied")>>
      [] error.kind = "response" /\ error.status = 404 ->
            <<Toast("not_found", OrElse(error.data.detail, "Resource not found"))>>
      [] error.kind = "response" /\ error.status = 422 -> ValidationToasts(error.data)
      [] error.kind = "response" /\ error.status = 429 ->
            <<Toast("rate_limit", "Too many requests. Please slow down.")>>
      [] error.kind = "response" /\ error.status = 500 ->
            <<Toast("server", "Internal server error. Please try again.")>>
      [] error.kind = "response" ->
            <<Toast("other", OrElse(error.data.error, "An error occurred"))>>
      [] error.kind = "request" ->
            <<Toast("network", "Network error. Please check your connection.")>>
      [] OTHER -> <<Toast("setup", "Request failed. Please try again.")>>

\* the error handler of api.interceptors.response: the toasts are shown and the
\* error is rejected to the caller
OnRejected(a) ==
    [a EXCEPT !.toasts = InterceptorToasts(a.error), !.outcome = "rejected"]

(* --------------------- useAdvancedSearch: the history ------------------- *)
\* query strings: 0 stands for '', 1 for a string of one or two characters, the
\* others for strings longer than two characters
SearchQueries == 0..11
\* a field a Partial<SearchRequest> leaves out
Absent == 99

\* a request; limit, 20 by default, stands for every field other than query
SearchRequest(query, limit) == [query |-> query, limit |-> limit]

\* the Partial<SearchRequest> arguments of executeSearch; none is the one of all
\* fields absent
PartialRequests ==
    [query : SearchQueries \cup {Absent}, limit : {Absent, 50}]

\* { ...searchRequest, ...request }
Spread(base, request) ==
    SearchRequest(IF request.query = Absent THEN base.query ELSE request.query,
                  IF request.limit = Absent THEN base.limit ELSE request.limit)

\* a history updater that slices to ten before prepending
AddToHistoryKeepTen(prev, finalRequest) ==
    LET others == SelectSeq(prev, LAMBDA item : item.query # finalRequest.query)
    IN <<finalRequest>> \o
           SubSeq(others, 1, IF Len(others) < 10 THEN Len(others) ELSE 10)

\* the updater executeSearch passes to setSearchHistory:
\* [finalRequest, ...prev.filter(item => item.query !== finalRequest.query).slice(0, 9)]
AddToHistory(prev, finalRequest) ==
    LET others == SelectSeq(prev, LAMBDA item : item.query # finalRequest.query)
    IN <<finalRequest>> \o
           SubSeq(others, 1, IF Len(others) < 9 THEN Len(others) ELSE 9)

\* the searchHistory after executeSearch was called with each request of log in turn
RECURSIVE HistoryAfter(_)
HistoryAfter(log) ==
    IF log = <<>> THEN <<>>
    ELSE AddToHistory(HistoryAfter(SubSeq(log, 1, Len(log) - 1)), log[Len(log)])

\* the hook after n searches for n different queries, rendered; with n = 0 it
\* holds useState's initial values
SearchedInit(n) ==
    /\ searchLog = [i \in 1..n |-> SearchRequest(i, 20)]
    /\ searchHistory = HistoryAfter(searchLog)
    /\ searchRequest = SearchRequest(n, 20)
    /\ renderedRequest = searchRequest
    /\ searchCalls = 0

(* ------------------------------- Init ----------------------------------- *)
\* the hook before its first effect
ChanInit ==
    /\ wsRef = "null"
    /\ sockets = [x \in SocketStatuses |-> 0]
    /\ dispatch = FALSE
    /\ timers = <<>>
    /\ reconnectTimeoutRef = 0
    /\ reconnectAttempts = 0
    /\ isConnected = FALSE
    /\ connectionState = "disconnected"
    /\ lastMessage = "null"
    /\ mounted = FALSE
    /\ enabled = TRUE
    /\ urlValid \in BOOLEAN
    /\ transported = <<>>
    /\ observed = <<>>
    /\ userDisconnected = FALSE
    /\ hist = [pure |-> TRUE, opens |-> 0, closes |-> 0, sched |-> 0]
    /\ op = Op("init", FALSE, FALSE, NoPayload)
    /\ wire = NoWire

\* the new QueryClient, for pages that read the keys KeySets[p]
CacheVarsInit(p) ==
    /\ pages = p
    /\ queries = [k \in KeySets[p] |-> AbsentQuery]
    /\ http = {}
    /\ httpCount = 0
    /\ obs = [c \in PageComponents[p] |-> NoObserver]
    /\ got = [c \in PageComponents[p] |-> 0]
    /\ cop = NoCop
    /\ appSeen = 0
    /\ api = NoApi
    /\ SearchedInit(0)

\* the new QueryClient of the "reads" pages, whatever the shared client handles
CacheVarsInitExcept ==
    /\ pages = "reads"
    /\ queries = [k \in KeySets["reads"] |-> AbsentQuery]
    /\ http = {}
    /\ httpCount = 0
    /\ obs = [c \in PageComponents["reads"] |-> NoObserver]
    /\ got = [c \in PageComponents["reads"] |-> 0]
    /\ cop = NoCop
    /\ appSeen = 0
    /\ SearchedInit(0)

Init == ChanInit /\ CacheVarsInit("reads")

(* ------------------------ actions of the caller ------------------------- *)
\* the init effect runs: if (enabled) connect()
Mount ==
    /\ ~dispatch
    /\ ~mounted
    /\ Constructs(St, enabled) => Tokens(St) < MaxLive
    /\ Apply(Connect(St, enabled))
    /\ mounted' = TRUE
    /\ userDisconnected' = IF enabled THEN FALSE ELSE userDisconnected
    /\ hist' = IF op.name = "init" /\ enabled THEN hist ELSE HistOff
    /\ op' = Op("event", FALSE, FALSE, NoPayload)
    /\ wire' = WireOf(wire, wsRef')
    /\ UNCHANGED cacheVars
    /\ UNCHANGED <<dispatch, lastMessage, enabled, urlValid, transported, observed>>

\* the init effect's cleanup runs: disconnect()
Unmount ==
    /\ ~dispatch
    /\ mounted
    /\ Apply(Disconnect(St))
    /\ mounted' = FALSE
    /\ userDisconnected' = TRUE
    /\ hist' = HistOff
    /\ op' = Op("disconnect", FALSE, FALSE, NoPayload)
    /\ wire' = WireOf(wire, wsRef')
    /\ UNCHANGED cacheVars
    /\ UNCHANGED <<dispatch, lastMessage, enabled, urlValid, transported, observed>>

\* a render with options.enabled flipped: the effect's cleanup, then the effect
SetEnabled ==
    /\ ~dispatch
    /\ mounted
    /\ Constructs(Disconnect(St), ~enabled) => Tokens(Disconnect(St)) < MaxLive
    /\ enabled' = ~enabled
    /\ Apply(Connect(Disconnect(St), ~enabled))
    /\ userDisconnected' = enabled
    /\ hist' = HistOff
    /\ op' = Op(IF enabled THEN "disconnect" ELSE "event", FALSE, FALSE, NoPayload)
    /\ wire' = WireOf(wire, wsRef')
    /\ UNCHANGED cacheVars
    /\ UNCHANGED <<dispatch, lastMessage, mounted, urlValid, transported, observed>>

\* the caller calls the returned connect()
CallConnect ==
    /\ ~dispatch
    /\ mounted
    /\ Constructs(St, enabled) => Tokens(St) < MaxLive
    /\ Apply(Connect(St, enabled))
    /\ userDisconnected' = FALSE
    /\ hist' = HistOff
    /\ op' = Op("connect", FALSE, FALSE, NoPayload)
    /\ wire' = WireOf(wire, wsRef')
    /\ UNCHANGED cacheVars
    /\ UNCHANGED <<dispatch, lastMessage, mounted, enabled, urlValid, transported,
                   observed>>

\* the caller calls the returned disconnect()
CallDisconnect ==
    /\ ~dispatch
    /\ mounted
    /\ Apply(Disconnect(St))
    /\ userDisconnected' = TRUE
    /\ hist' = HistOff
    /\ op' = Op("disconnect", FALSE, FALSE, NoPayload)
    /\ wire' = WireOf(wire, wsRef')
    /\ UNCHANGED cacheVars
    /\ UNCHANGED <<dispatch, lastMessage, mounted, enabled, urlValid, transported,
                   observed>>

\* the caller calls the returned sendMessage(message)
CallSend ==
    /\ ~dispatch
    /\ mounted
    /\ hist' = HistOff
    /\ op' = Op("send", SendMessage(St).tx, SendMessage(St).ret, NoPayload)
    /\ wire' = WireOnSend(wire, SendMessage(St).tx)
    /\ UNCHANGED cacheVars
    /\ UNCHANGED <<wsRef, sockets, dispatch, timers, reconnectTimeoutRef,
                   reconnectAttempts, isConnected, connectionState, lastMessage,
                   mounted, enabled, urlValid, transported, observed, userDisconnected>>

(* ---------------------- timer and transport events ---------------------- *)
\* the ping interval fires, which the ping effect keeps set while isConnected:
\* sendPing(), i.e. sendMessage of a ping envelope
PingFires ==
    /\ ~dispatch
    /\ mounted
    /\ isConnected
    /\ hist' = HistOff
    /\ op' = Op("ping", SendMessage(St).tx, SendMessage(St).ret, NoPayload)
    /\ wire' = WireOnSend(wire, SendMessage(St).tx)
    /\ UNCHANGED cacheVars
    /\ UNCHANGED <<wsRef, sockets, dispatch, timers, reconnectTimeoutRef,
                   reconnectAttempts, isConnected, connectionState, lastMessage,
                   mounted, enabled, urlValid, transported, observed, userDisconnected>>

\* the oldest reconnect timer fires
TimerFires ==
    /\ ~dispatch
    /\ timers # <<>>
    /\ Apply(TimerBody(St))
    /\ hist' = HistStep(hist, 0, 0, 0)
    /\ op' = Op("event", FALSE, FALSE, NoPayload)
    /\ wire' = WireOf(wire, wsRef')
    /\ UNCHANGED cacheVars
    /\ UNCHANGED <<dispatch, lastMessage, mounted, enabled, urlValid, transported,
                   observed, userDisconnected>>

\* the handshake of a connecting socket completes: ws.onopen
OnOpen(r) ==
    /\ ~dispatch
    /\ HasSocket(St, r, "CONNECTING")
    /\ Apply(OnOpenBody(St, r))
    /\ hist' = HistStep(hist, 1, 0, 0)
    /\ op' = Op("event", FALSE, FALSE, NoPayload)
    /\ \E observer \in OnOpenObservers :
          wire' = WireOnOpen(WireOf(wire, wsRef'), r,
                             OnOpenEffects(OnOpenBody(St, r), r, observer))
    /\ UNCHANGED cacheVars
    /\ UNCHANGED <<dispatch, lastMessage, mounted, enabled, urlValid, transported,
                   observed, userDisconnected>>

\* a frame arrives on an open socket: ws.onmessage
OnMessage(r, raw) ==
    /\ ~dispatch
    /\ HasSocket(St, r, "OPEN")
    /\ Len(transported) < MaxMsgs
    /\ transported' = Append(transported, raw)
    /\ LET m == OnMessageBody([lastMessage |-> lastMessage, observed |-> observed], raw)
       IN /\ lastMessage' = m.lastMessage
          /\ observed' = m.observed
    /\ hist' = HistOff
    /\ op' = Op("message", FALSE, FALSE, raw)
    /\ wire' = WireOf(wire, wsRef)
    /\ UNCHANGED cacheVars
    /\ UNCHANGED <<wsRef, sockets, dispatch, timers, reconnectTimeoutRef,
                   reconnectAttempts, isConnected, connectionState, mounted, enabled,
                   urlValid, userDisconnected>>

\* the connection of a socket fails (refused, network loss, close() before it was
\* established): ws.onerror, and the close event follows in the same task
OnError(r, status) ==
    /\ ~dispatch
    /\ status \in {"CONNECTING", "OPEN", "ABORTING"}
    /\ HasSocket(St, r, status)
    /\ Apply(OnErrorBody(St, r, status))
    /\ dispatch' = TRUE
    /\ hist' = HistStep(hist, 0, 0, 0)
    /\ op' = Op("event", FALSE, FALSE, NoPayload)
    /\ wire' = WireOf(wire, wsRef')
    /\ UNCHANGED cacheVars
    /\ UNCHANGED <<lastMessage, mounted, enabled, urlValid, transported, observed,
                   userDisconnected>>

\* the close event of a socket: ws.onclose
OnClose(r, status) ==
    /\ IF dispatch THEN status = "CLOSED" ELSE status \in {"OPEN", "CLOSING"}
    /\ HasSocket(St, r, status)
    /\ Apply(OnCloseBody(St, r, status))
    /\ dispatch' = FALSE
    /\ hist' = HistStep(hist, 0, 1, Len(OnCloseBody(St, r, status).timers) - Len(timers))
    /\ op' = Op("event", FALSE, FALSE, NoPayload)
    /\ wire' = WireOf(wire, wsRef')
    /\ UNCHANGED cacheVars
    /\ UNCHANGED <<lastMessage, mounted, enabled, urlValid, transported, observed,
                   userDisconnected>>

Next ==
    \/ Mount
    \/ Unmount
    \/ SetEnabled
    \/ CallConnect
    \/ CallDisconnect
    \/ CallSend
    \/ PingFires
    \/ TimerFires
    \/ \E r \in BOOLEAN : OnOpen(r)
    \/ \E r \in BOOLEAN, raw \in Payloads : OnMessage(r, raw)
    \/ \E r \in BOOLEAN, status \in SocketStatuses : OnError(r, status)
    \/ \E r \in BOOLEAN, status \in SocketStatuses : OnClose(r, status)

Spec == Init /\ [][Next]_vars

\* the event loop runs a timer callback that is due, and the close event of a
\* failed or closed connection is delivered
LiveSpec ==
    /\ Init
    /\ [][Next]_vars
    /\ WF_vars(TimerFires)
    /\ WF_vars(\E r \in BOOLEAN, status \in SocketStatuses : OnClose(r, status))

TypeOK ==
    /\ wsRef \in {"null"} \cup SocketStatuses
    /\ sockets \in [SocketStatuses -> 0..MaxLive]
    /\ dispatch \in BOOLEAN
    /\ dispatch <=> NumSockets(St, {"CLOSED"}) = 1
    /\ NumSockets(St, {"CLOSED"}) <= 1
    /\ reconnectTimeoutRef \in 0..FiredHandle
    /\ reconnectTimeoutRef \notin {0, FiredHandle} => reconnectTimeoutRef = Len(timers)
    /\ reconnectAttempts \in 0..MaxReconnectAttempts
    /\ connectionState \in ConnectionStates
    /\ wire.first \in {"none", "connection_info", "observer_message", "message"}
    /\ wire.url \in {<<>>, ClientIdRef}
    /\ Tokens(St) <= MaxLive

(* ------------------- actions of the server-state cache ------------------ *)
\* component c renders useMemories(filters)
RenderUseMemories(c, filters) ==
    /\ MemoryKeysList(filters) \in Keys
    /\ UseMemories(Cs, c, filters).httpCount <= MaxHttp
    /\ UseMemories(Cs, c, filters) # Cs
    /\ ApplyCs(UseMemories(Cs, c, filters))
    /\ cop' = NoCop
    /\ UNCHANGED <<pages, appSeen, api, searchVars, chanVars>>

\* component c renders useMemory(id)
RenderUseMemory(c, id) ==
    /\ MemoryKeysDetail(id) \in Keys
    /\ UseMemory(Cs, c, id).httpCount <= MaxHttp
    /\ UseMemory(Cs, c, id) # Cs
    /\ ApplyCs(UseMemory(Cs, c, id))
    /\ cop' = NoCop
    /\ UNCHANGED <<pages, appSeen, api, searchVars, chanVars>>

\* component c renders useMemoryStats(assistantId)
RenderUseMemoryStats(c, assistantId) ==
    /\ MemoryKeysStats(assistantId) \in Keys
    /\ UseMemoryStats(Cs, c, assistantId).httpCount <= MaxHttp
    /\ UseMemoryStats(Cs, c, assistantId) # Cs
    /\ ApplyCs(UseMemoryStats(Cs, c, assistantId))
    /\ cop' = NoCop
    /\ UNCHANGED <<pages, appSeen, api, searchVars, chanVars>>

\* component c renders useRecentQueries(assistantId)
RenderUseRecentQueries(c, assistantId) ==
    /\ SearchKeysRecentQueries(assistantId) \in Keys
    /\ LET cs == UseQuery(Cs, c, SearchKeysRecentQueries(assistantId), NoLimit, TRUE)
       IN /\ cs.httpCount <= MaxHttp
          /\ cs # Cs
          /\ ApplyCs(cs)
    /\ cop' = NoCop
    /\ UNCHANGED <<pages, appSeen, api, searchVars, chanVars>>

\* component c renders one of the ranked-view hooks with a limit
RenderRanked(c, hook, arg, limit) ==
    /\ RankedKey(hook, arg) \in Keys
    /\ UseRanked(Cs, c, hook, arg, limit).httpCount <= MaxHttp
    /\ UseRanked(Cs, c, hook, arg, limit) # Cs
    /\ ApplyCs(UseRanked(Cs, c, hook, arg, limit))
    /\ cop' = NoCop
    /\ UNCHANGED <<pages, appSeen, api, searchVars, chanVars>>

\* component c unmounts: its observer unsubscribes
UnmountComponent(c) ==
    /\ obs[c] # NoObserver
    /\ obs' = [obs EXCEPT ![c] = NoObserver]
    /\ got' = [got EXCEPT ![c] = 0]
    /\ cop' = NoCop
    /\ UNCHANGED <<queries, http, httpCount, pages, appSeen, api, searchVars, chanVars>>

\* the server answers an HTTP GET, with the resource or with an error
HttpResponds(r, ok) ==
    /\ r \in http
    /\ ApplyCs(Respond(Cs, r, ok))
    /\ cop' = NoCop
    /\ UNCHANGED <<pages, appSeen, api, searchVars, chanVars>>

\* the retry delay of a failed fetch has passed: the query function runs again
RetryFires(k) ==
    /\ queries[k].exists
    /\ queries[k].fetching
    /\ LiveCalls(Cs, k) = {}
    /\ httpCount < MaxHttp
    /\ ApplyCs(SendGet(Cs, k))
    /\ cop' = NoCop
    /\ UNCHANGED <<pages, appSeen, api, searchVars, chanVars>>

\* staleTime has passed since the Query's data was fetched
StaleTimePasses(k) ==
    /\ queries[k].exists
    /\ queries[k].data # 0
    /\ ~queries[k].stale
    /\ queries' = [queries EXCEPT ![k].stale = TRUE]
    /\ cop' = NoCop
    /\ UNCHANGED <<http, httpCount, obs, got, pages, appSeen, api, searchVars, chanVars>>

\* cacheTime has passed since the Query lost its last observer: it is collected
CacheTimePasses(k) ==
    /\ queries[k].exists
    /\ Observers(Cs, k) = {}
    /\ ~queries[k].fetching
    /\ queries' = [queries EXCEPT ![k] = AbsentQuery]
    /\ cop' = NoCop
    /\ UNCHANGED <<http, httpCount, obs, got, pages, appSeen, api, searchVars, chanVars>>

\* the HTTP responses a successful mutation puts into the cache: the record
\* update is answered with
Seeds(kind) == IF kind = "update" THEN 1 ELSE 0

\* a caller calls mutate(...) of a mutation hook and the remote write is answered:
\* onSuccess runs; a record it caches is the body of response httpCount + 1
MutationSucceeds(kind, id, assistantId) ==
    /\ LET cs == OnSuccess([Cs EXCEPT !.httpCount = @ + Seeds(kind)], kind, id,
                           assistantId, httpCount + 1)
       IN /\ cs.httpCount <= MaxHttp
          /\ ApplyCs(cs)
    /\ cop' = Cop("succeeded", kind, id, assistantId, WritesSent(TRUE))
    /\ UNCHANGED <<pages, appSeen, api, searchVars, chanVars>>

\* a caller calls mutate(...) of a mutation hook and the remote write fails, as
\* does every retry: onError runs, where the hook has one
MutationFails(kind, id, assistantId) ==
    /\ ApplyCs(MutationOnError(Cs, kind))
    /\ cop' = Cop("failed", kind, id, assistantId, WritesSent(FALSE))
    /\ UNCHANGED <<pages, appSeen, api, searchVars, chanVars>>

CacheNext ==
    \/ \E c \in Components, f \in Filters : RenderUseMemories(c, f)
    \/ \E c \in Components, id \in MemoryIds : RenderUseMemory(c, id)
    \/ \E c \in Components, a \in Assistants : RenderUseMemoryStats(c, a)
    \/ \E c \in Components, hook \in RankedHooks,
          arg \in MemoryIds \cup Assistants \cup {NoAssistant},
          limit \in PageLimits[pages] :
            RenderRanked(c, hook, arg, limit)
    \/ \E c \in Components, a \in Assistants \cup {NoAssistant} :
          RenderUseRecentQueries(c, a)
    \/ \E c \in Components : UnmountComponent(c)
    \/ \E r \in http, ok \in BOOLEAN : HttpResponds(r, ok)
    \/ \E k \in Keys : RetryFires(k)
    \/ \E k \in Keys : StaleTimePasses(k)
    \/ \E k \in Keys : CacheTimePasses(k)
    \/ \E args \in WriteArgs : MutationSucceeds(args[1], args[2], args[3])
    \/ \E args \in WriteArgs : MutationFails(args[1], args[2], args[3])

CacheInit == ChanInit /\ urlValid /\ \E p \in DOMAIN KeySets : CacheVarsInit(p)

CacheSpec == CacheInit /\ [][CacheNext]_vars

(* ----------------------- App: realtime messages ------------------------ *)
\* the body of App's effect on lastMessage: the message is logged, the cache is
\* not used
HandleMessage(cs, message) == cs

\* App's effect on [lastMessage] runs after a render in which lastMessage is a
\* message the effect has not seen; messages set since its last run and replaced
\* before the render are never seen
LastMessageEffect ==
    /\ Len(observed) > appSeen
    /\ appSeen' = Len(observed)
    /\ ApplyCs(HandleMessage(Cs, lastMessage))
    /\ cop' = Cop("handled", lastMessage, 0, NoAssistant, 0)
    /\ UNCHANGED <<pages, api, searchVars, chanVars>>

\* the only element of a set of one
TheOne(S) == CHOOSE x \in S : TRUE

\* the cache once component A has read the list with filters 3 and component B the
\* memory 42, both answered
ReadsAnswered ==
    LET cs0 == [queries |-> [k \in KeySets["reads"] |-> AbsentQuery], http |-> {},
                httpCount |-> 0, obs |-> [c \in PageComponents["reads"] |-> NoObserver],
                got |-> [c \in PageComponents["reads"] |-> 0]]
        cs1 == UseMemories(cs0, "A", 3)
        cs2 == Respond(cs1, TheOne(cs1.http), TRUE)
        cs3 == UseMemory(cs2, "B", 42)
    IN Respond(cs3, TheOne(cs3.http), TRUE)

\* App as main.tsx renders it, its pages having read a list and a memory
AppInit ==
    /\ ChanInit
    /\ urlValid
    /\ pages = "reads"
    /\ queries = ReadsAnswered.queries
    /\ http = ReadsAnswered.http
    /\ httpCount = ReadsAnswered.httpCount
    /\ obs = ReadsAnswered.obs
    /\ got = ReadsAnswered.got
    /\ cop = NoCop
    /\ appSeen = 0
    /\ api = NoApi
    /\ SearchedInit(0)

\* App passes enabled: true and uses isConnected and lastMessage only: the hook is
\* driven by its effects, its timers and the transport
AppNext ==
    \/ Mount
    \/ Unmount
    \/ PingFires
    \/ TimerFires
    \/ \E r \in BOOLEAN : OnOpen(r)
    \/ \E r \in BOOLEAN, raw \in Payloads : OnMessage(r, raw)
    \/ \E r \in BOOLEAN, status \in SocketStatuses : OnError(r, status)
    \/ \E r \in BOOLEAN, status \in SocketStatuses : OnClose(r, status)
    \/ LastMessageEffect

AppSpec == AppInit /\ [][AppNext]_vars

(* ------------------------ the shared REST client ----------------------- *)
\* a request of the shared client has failed with the given error
ApiInit ==
    /\ ChanInit
    /\ urlValid
    /\ CacheVarsInitExcept
    /\ \E error \in AxiosErrors :
          api = [NoApi EXCEPT !.error = error, !.outcome = "pending"]

\* axios runs the response interceptor's error handler on the failed request
InterceptError ==
    /\ api.outcome = "pending"
    /\ api' = OnRejected(api)
    /\ UNCHANGED <<queries, http, httpCount, obs, got, cop, pages, appSeen, searchVars, chanVars>>

\* the rejected request was the remote write of a mutation hook: the mutation
\* fails with the rejected error and the hook's onError runs
MutationRejected(kind) ==
    /\ api.outcome = "rejected"
    /\ api.caller = "none"
    /\ api' = [api EXCEPT !.caller = kind, !.hook = MutationOnErrorToasts(kind)]
    /\ UNCHANGED <<queries, http, httpCount, obs, got, cop, pages, appSeen, searchVars, chanVars>>

ApiNext ==
    \/ InterceptError
    \/ \E kind \in MutationKinds : MutationRejected(kind)

ApiSpec == ApiInit /\ [][ApiNext]_vars

(* ------------------- actions of useAdvancedSearch ----------------------- *)
\* the hook before any search, after one, and after as many as leave the history
\* one short of full and full
SearchInit ==
    /\ ChanInit
    /\ urlValid
    /\ pages = "reads"
    /\ queries = [k \in KeySets["reads"] |-> AbsentQuery]
    /\ http = {}
    /\ httpCount = 0
    /\ obs = [c \in PageComponents["reads"] |-> NoObserver]
    /\ got = [c \in PageComponents["reads"] |-> 0]
    /\ cop = NoCop
    /\ appSeen = 0
    /\ api = NoApi
    /\ \E n \in {0, 1, 9, 10} : SearchedInit(n)

\* the component renders: executeSearch is rebuilt over the current searchRequest
RenderSearch ==
    /\ renderedRequest # searchRequest
    /\ renderedRequest' = searchRequest
    /\ UNCHANGED <<searchRequest, searchHistory, searchLog, searchCalls>>
    /\ UNCHANGED <<queries, http, httpCount, obs, got, cop, pages, appSeen, api, chanVars>>

\* executeSearch(request): the request is merged over the searchRequest of the
\* last render, set as searchRequest and put at the head of the history; a
\* substantial query is saved, and the query's cache entry is invalidated
ExecuteSearch(request) ==
    LET finalRequest == Spread(renderedRequest, request)
    IN /\ searchCalls < MaxSearches
       /\ searchCalls' = searchCalls + 1
       /\ searchRequest' = finalRequest
       /\ searchHistory' = AddToHistory(searchHistory, finalRequest)
       /\ searchLog' = Append(searchLog, finalRequest)
       /\ cop' = IF finalRequest.query > 1
                 THEN Cop("mutate", "saveSearchQuery", finalRequest.query, NoAssistant, 1)
                 ELSE NoCop
       /\ ApplyCs(InvalidateQueries(Cs, <<"search", "query", finalRequest>>))
       /\ UNCHANGED <<renderedRequest, pages, appSeen, api, chanVars>>

SearchNext ==
    \/ RenderSearch
    \/ \E request \in PartialRequests : ExecuteSearch(request)

SearchSpec == SearchInit /\ [][SearchNext]_vars

CacheTypeOK ==
    /\ httpCount \in 0..MaxHttp
    /\ \A r \in http : r.id \in 1..httpCount /\ r.key \in Keys
    /\ \A k \in Keys : queries[k].failureCount \in 0..Retry
    /\ \A k \in Keys : queries[k].status \in {"idle", "loading", "success", "error"}
    /\ \A c \in Components : obs[c] = NoObserver \/ obs[c].key \in Keys

(* ======================= the realtime channel ========================== *)
\* the number of connections that are connecting or open
Live == NumSockets(St, {"CONNECTING", "OPEN"})
NoSockets == NumSockets(St, SocketStatuses) = 0
\* the retry budget is spent and nothing automatic is left to happen
Exhausted ==
    reconnectAttempts = MaxReconnectAttempts /\ timers = <<>> /\ NoSockets
\* a step in which the caller asks for a connection
ConnectRequested == (mounted' /\ ~mounted) \/ enabled' # enabled \/ op'.name = "connect"

\* C1 (as stated): over any run of open, close, error and timer events the number
\* of reconnects scheduled never exceeds maxReconnectAttempts.
C1_ScheduledNeverExceedCeiling ==
    hist.pure => hist.sched <= MaxReconnectAttempts

\* C1 (amended): the retry counter, i.e. the number of reconnects scheduled since
\* the last successful open, never exceeds maxReconnectAttempts; a reconnect is
\* scheduled only below the ceiling and counts one; and once the budget is spent
\* with no timer pending and no socket left, the channel stays 'disconnected'
\* until the caller asks for a connection.
C1_RetryCounterBounded ==
    /\ [](reconnectAttempts <= MaxReconnectAttempts)
    /\ [][Len(timers') > Len(timers) =>
            /\ reconnectAttempts < MaxReconnectAttempts
            /\ reconnectAttempts' = reconnectAttempts + 1]_vars
    /\ [][(Exhausted /\ connectionState = "disconnected" /\ ~ConnectRequested) =>
            (Exhausted /\ connectionState = "disconnected")']_vars

C1_Witness ==
    /\ mounted
    /\ Exhausted
    /\ connectionState = "disconnected"
    /\ op.name = "event"

\* C2 (as stated): the server accepts and then closes the connection 6 times in a
\* row: exactly 5 reconnects are scheduled and the channel then stops retrying.
C2_AcceptThenCloseStops ==
    (hist.pure /\ hist.opens = MaxReconnectAttempts + 1
               /\ hist.closes = MaxReconnectAttempts + 1) =>
        (hist.sched = MaxReconnectAttempts /\ timers = <<>>)

\* C2 (amended): the server closes every connection before it opens, 6 times in a
\* row: exactly 5 reconnects are scheduled, each reconnectInterval (3000 ms) after
\* the close that caused it, and after the sixth close the channel stops retrying.
C2_RefusedSixTimes ==
    (hist.pure /\ hist.opens = 0) =>
        /\ hist.closes <= MaxReconnectAttempts + 1
        /\ hist.sched = (IF hist.closes <= MaxReconnectAttempts
                         THEN hist.closes ELSE MaxReconnectAttempts)
        /\ \A i \in 1..Len(timers) : timers[i] = ReconnectInterval
        /\ hist.closes = MaxReconnectAttempts + 1 =>
              (Exhausted /\ connectionState = "disconnected")

C2_Witness ==
    /\ hist.pure
    /\ hist.opens = 0
    /\ hist.closes = MaxReconnectAttempts + 1
    /\ hist.sched = MaxReconnectAttempts

\* C3: on return from disconnect() no reconnect timer is pending, the channel
\* references no connection, connectionState = 'disconnected', isConnected = false,
\* and a second disconnect() changes nothing.
C3_DisconnectLeavesNothing ==
    op.name = "disconnect" =>
        /\ timers = <<>>
        /\ wsRef = "null"
        /\ connectionState = "disconnected"
        /\ ~isConnected
        /\ Disconnect(St) = St

\* C4: between a disconnect() and the caller's next connect() no reconnect is
\* scheduled, no reconnect timer fires and no connection is constructed.
C4_NoReconnectAfterDisconnect ==
    [][(userDisconnected /\ userDisconnected') =>
          /\ Len(timers') <= Len(timers)
          /\ op'.name # "disconnect" => timers' = timers
          /\ NumSockets(St, {"CONNECTING"})' <= NumSockets(St, {"CONNECTING"})]_vars

\* C5: connect() called while 'connecting' or 'connected' constructs no socket and
\* leaves connectionState, the retry counter and the connection unchanged.
C5_ConnectIsNoOpWhenConnected ==
    [][(op'.name = "connect" /\ connectionState \in {"connecting", "connected"}) =>
          UNCHANGED <<sockets, wsRef, connectionState, reconnectAttempts>>]_vars

\* C6: at most one connection of the channel is connecting or open at any instant.
C6_AtMostOneLiveConnection ==
    Live <= 1

C8_MalformedDropped ==
    [][(op'.name = "message" /\ ~op'.payload.wellFormed) =>
          UNCHANGED <<lastMessage, observed, connectionState, isConnected,
                      reconnectAttempts, wsRef, sockets, timers,
                      reconnectTimeoutRef>>]_vars

C8_Witness ==
    /\ op.name = "message"
    /\ ~op.payload.wellFormed
    /\ lastMessage # "null"

\* the well-formed payloads of a delivery sequence, parsed, in order
WellFormedOf(seq) ==
    LET good == SelectSeq(seq, LAMBDA raw : JSONParse(raw).ok)
    IN [i \in 1..Len(good) |-> JSONParse(good[i]).value]

\* C9: the onMessage observer has received exactly the well-formed payloads the
\* transport delivered, once each and in delivery order, and lastMessage is the
\* latest of them.
C9_ObservedInTransportOrder ==
    /\ observed = WellFormedOf(transported)
    /\ lastMessage = (IF observed = <<>> THEN "null" ELSE observed[Len(observed)])

C9_Witness ==
    /\ Len(observed) = 2
    /\ observed[1] # observed[2]
    /\ lastMessage = observed[2]

(* ======================= the server-state cache ======================== *)
\* the unanswered HTTP GETs sent for key k
Outstanding(k) == {r \in http : r.key = k}

C11_InvalidatedNeverServedFresh ==
    \A k \in Keys :
        (queries[k].exists /\ queries[k].data # 0 /\ ~IsStale(queries[k])) =>
            ~queries[k].old

\* a step in which the onSuccess of a mutation of the given kind has run
Succeeded(kind) == cop'.name = "succeeded" /\ cop'.kind = kind

\* after the step the Query of k, if cached, is marked invalidated, and is being
\* refetched if a component reads it
InvalidatedBy(k) ==
    queries[k].exists =>
        /\ queries'[k].invalidated
        /\ Observers(Cs, k) # {} => queries'[k].fetching

\* C12 (as stated): a successful create for assistant A invalidates the list entry
\* filtered by A and the stats entry of A, and leaves the list entry filtered by
\* another assistant untouched.
C12_OtherListUntouched ==
    [][Succeeded("create") =>
          /\ MemoryKeysList(cop'.assistant_id) \in Keys =>
                 InvalidatedBy(MemoryKeysList(cop'.assistant_id))
          /\ MemoryKeysStats(cop'.assistant_id) \in Keys =>
                 InvalidatedBy(MemoryKeysStats(cop'.assistant_id))
          /\ \A b \in Filters \ {cop'.assistant_id} :
                 MemoryKeysList(b) \in Keys =>
                     queries'[MemoryKeysList(b)] = queries[MemoryKeysList(b)]]_vars

\* C12 (amended): a successful create for assistant A invalidates every cached
\* list entry, whatever assistant it is filtered by, the stats entry of A and
\* the recent view of A; every other entry, such as the stats entry of another
\* assistant, is left untouched.
C12_CreateInvalidatesAllLists ==
    [][Succeeded("create") =>
          \A k \in Keys :
              IF \/ PartialMatchKey(k, MemoryKeysLists)
                 \/ k = MemoryKeysStats(cop'.assistant_id)
                 \/ k = MemoryKeysRecent(cop'.assistant_id)
              THEN InvalidatedBy(k)
              ELSE queries'[k] = queries[k]]_vars

\* a create for assistant 7 has just succeeded with the lists of assistants 7 and 9
\* both cached
C12_Witness ==
    /\ cop.name = "succeeded"
    /\ cop.kind = "create"
    /\ cop.assistant_id = 7
    /\ MemoryKeysList(9) \in Keys
    /\ \A k \in Keys : queries[k].exists /\ queries[k].data # 0 /\ queries[k].invalidated

\* C17: a successful create invalidates every cached list entry, the stats entry
\* of the new memory's assistant, the recent view of that assistant and the
\* recent view of all assistants (keyed with no assistant id).
C17_CreateInvalidatesRecentViews ==
    [][Succeeded("create") =>
          \A k \in Keys :
              (\/ PartialMatchKey(k, MemoryKeysLists)
               \/ k = MemoryKeysStats(cop'.assistant_id)
               \/ k = MemoryKeysRecent(cop'.assistant_id)
               \/ k = MemoryKeysRecent(NoAssistant)) => InvalidatedBy(k)]_vars

\* C16: after a successful create or update the single-entity entry of the returned
\* record's id holds the returned record and is fresh.
C16_ReturnedRecordSeeded ==
    [][(Succeeded("create") \/ Succeeded("update")) =>
          (MemoryKeysDetail(cop'.id) \in Keys =>
              /\ queries'[MemoryKeysDetail(cop'.id)].exists
              /\ queries'[MemoryKeysDetail(cop'.id)].data = httpCount + 1
              /\ ~IsStale(queries'[MemoryKeysDetail(cop'.id)]))]_vars

\* C15: a mutation whose remote write fails leaves every cache entry, every fetch
\* in flight and every component's data as they were, and the mutation reports
\* the failure.
C15_FailureTouchesNoEntry ==
    [][\A args \in WriteArgs :
          MutationFails(args[1], args[2], args[3]) =>
              /\ UNCHANGED <<queries, http, httpCount, obs, got>>
              /\ cop'.name = "failed"]_vars

\* a mutation has just failed while an entry with data is cached and read by a
\* component
C15_Witness ==
    /\ cop.name = "failed"
    /\ \E k \in Keys : queries[k].exists /\ queries[k].data # 0 /\ Observers(Cs, k) # {}

\* C14: a read never returns a value fetched for other query parameters: the
\* data a component reads from its Query was fetched with the limit the
\* component passed to its hook.
C14_ReadsOwnLimit ==
    \A c \in Components :
        (/\ obs[c] # NoObserver
         /\ queries[obs[c].key].exists
         /\ queries[obs[c].key].qid = obs[c].qid
         /\ queries[obs[c].key].data # 0) =>
            queries[obs[c].key].limit = obs[c].limit

\* C19: a failing read is fetched at most Retry + 1 times, its error state is
\* exposed only when the last of these attempts fails, and the remote write of a
\* mutation is sent exactly once whether it succeeds or fails.
C19_ReadsRetriedWritesSentOnce ==
    /\ [](\A k \in Keys :
             queries[k].exists =>
                 /\ queries[k].failureCount <= Retry
                 /\ queries[k].fetching =>
                        queries[k].failureCount + Cardinality(LiveCalls(Cs, k))
                            <= Retry + 1)
    /\ [][\A k \in Keys :
             (/\ queries[k].exists
              /\ queries[k].status # "error"
              /\ queries'[k].status = "error") =>
                 /\ queries[k].failureCount = Retry
                 /\ \E r \in http \ http' : r.key = k]_vars
    /\ [](cop.name # "none" => cop.sent = 1)

\* a read has failed three times and shows its error, and a mutation's write has
\* failed
C19_Witness ==
    /\ cop.name = "failed"
    /\ httpCount = Retry + 1
    /\ \E k \in Keys : queries[k].exists /\ queries[k].status = "error"

\* the effects of an onopen hold one connection_info, written last, after the state
\* was set to connected and the onOpen observer, if any, was notified
InfoSentOnOpen(effects) ==
    /\ Len(SelectSeq(effects, LAMBDA e : e = "connection_info")) = 1
    /\ effects[Len(effects)] = "connection_info"
    /\ effects[1] = "connected"
    /\ \A i \in 1..Len(effects) : effects[i] = "onOpen" => i < Len(effects)

\* the record of the referenced socket: at most one connection_info, carrying the
\* client_id of the socket's URL, which is the hook's one identity token; an open
\* socket has had its connection_info
TokenOfChannel ==
    /\ wire.infos <= 1
    /\ wire.url \in {<<>>, ClientIdRef}
    /\ wire.infos = 1 => wire.info = wire.url /\ wire.url = ClientIdRef
    /\ wsRef = "OPEN" => wire.infos = 1

\* C20 (as stated): every open sends exactly one connection_info with the channel's
\* token, after the state is connected and onOpen was notified, and before any
\* other outbound message on that connection.
C20_InfoBeforeAnyOtherMessage ==
    /\ [][\A r \in BOOLEAN :
             OnOpen(r) =>
                 /\ connectionState' = "connected"
                 /\ InfoSentOnOpen(wire'.effects)
                 /\ Writes(wire'.effects) = <<"connection_info">>]_vars
    /\ [](wire.first \in {"none", "connection_info"})
    /\ []TokenOfChannel

\* C20 (amended): every open sends exactly one connection_info with the channel's
\* token, after the state is connected and onOpen was notified; the only outbound
\* message that can precede it on that connection is one the onOpen observer sends
\* during its notification: no ping or later send of the caller does.
C20_InfoBeforeLaterMessages ==
    /\ [][\A r \in BOOLEAN :
             OnOpen(r) =>
                 /\ connectionState' = "connected"
                 /\ InfoSentOnOpen(wire'.effects)
                 /\ \A i \in 1..Len(wire'.effects) :
                        wire'.effects[i] = "message" =>
                            i > 1 /\ wire'.effects[i - 1] = "onOpen"]_vars
    /\ [](wire.first \in {"none", "connection_info", "observer_message"})
    /\ []TokenOfChannel

\* a socket has opened and its onOpen observer sent a message before the
\* connection_info; the caller then sent another message on the open socket
C20_Witness ==
    /\ wsRef = "OPEN"
    /\ wire.first = "observer_message"
    /\ wire.infos = 1
    /\ op.name = "send"
    /\ op.tx

\* C13: when App handles a memory_deleted message (for memory 42), the
\* single-entity entry of that memory is removed and every list entry is
\* invalidated.
C13_DeletedMessageInvalidates ==
    [][(LastMessageEffect /\ lastMessage = "memory_deleted") =>
          /\ ~queries'[MemoryKeysDetail(42)].exists
          /\ \A k \in Keys :
                 PartialMatchKey(k, MemoryKeysLists) => InvalidatedBy(k)]_vars

\* the notification category of an error
Category(error) ==
    CASE error.kind = "request" -> "network"
      [] error.kind = "setup" -> "setup"
      [] error.status = 400 -> "bad_request"
      [] error.status = 401 -> "authentication"
      [] error.status = 403 -> "access"
      [] error.status = 404 -> "not_found"
      [] error.status = 422 -> "validation"
      [] error.status = 429 -> "rate_limit"
      [] error.status = 500 -> "server"
      [] OTHER -> "other"

\* C18: every failed request that went through the response interceptor has
\* produced a notification of the category of its status and is rejected to the
\* caller.
C18_EveryFailureNotifiedAndRejected ==
    api.outcome \notin {"idle", "pending"} =>
        /\ api.outcome = "rejected"
        /\ api.toasts # <<>>
        /\ \A i \in 1..Len(api.toasts) : api.toasts[i].category = Category(api.error)

(* ================= the realtime channel: further claims ================= *)
\* C21: the retry counter stays within 0..maxReconnectAttempts; it changes only by
\* going up by one in a step that schedules a reconnect, which every such step
\* does, or by going to 0 in a successful open, which every open does.
C21_RetryCounterSteps ==
    /\ [](reconnectAttempts \in 0..MaxReconnectAttempts)
    /\ [][reconnectAttempts' # reconnectAttempts =>
            \/ /\ Len(timers') = Len(timers) + 1
               /\ reconnectAttempts' = reconnectAttempts + 1
            \/ /\ \E r \in BOOLEAN : OnOpen(r)
               /\ reconnectAttempts' = 0]_vars
    /\ [][Len(timers') > Len(timers) =>
            reconnectAttempts' = reconnectAttempts + 1]_vars
    /\ [][\A r \in BOOLEAN : OnOpen(r) => reconnectAttempts' = 0]_vars

\* a reconnect was scheduled and counted, its connection then opened and the
\* counter is back at 0
C21_Witness ==
    /\ hist.pure
    /\ hist.sched >= 1
    /\ hist.opens = 1
    /\ wsRef = "OPEN"
    /\ reconnectAttempts = 0
    /\ wire.effects # <<>>

\* C22: the channel does not stay in 'error': whenever connectionState is 'error',
\* after a transport error or a failure to construct the connection, the close
\* sequence follows and the state becomes 'disconnected'.
C22_ErrorLeadsToDisconnected ==
    (connectionState = "error") ~> (connectionState = "disconnected")

\* C23: 'connected' is entered only from 'connecting', and 'connecting' is never
\* entered while the channel is 'connected'.
C23_LifecycleEdges ==
    [][/\ (connectionState' = "connected" /\ connectionState # "connected") =>
              connectionState = "connecting"
       /\ connectionState' = "connecting" => connectionState # "connected"]_vars

\* C24: every firing of the ping interval, which is set while the channel reports
\* connected, writes a ping to the connection; no ping is written while the
\* channel does not report connected; and a ping, answered or not, leaves
\* connectionState and the connection as they are.
C24_PingSentWhileConnected ==
    [][op'.name = "ping" =>
          /\ isConnected => op'.tx
          /\ op'.tx => (isConnected /\ connectionState = "connected")
          /\ UNCHANGED <<connectionState, isConnected, wsRef, sockets, timers>>]_vars

\* C27: in every reachable state the flags of the channel agree: isConnected is
\* true exactly when connectionState is 'connected' and exactly when the
\* connection the channel references is open, so that a send made while
\* isConnected is true is written.
C27_FlagsAgree ==
    /\ isConnected <=> connectionState = "connected"
    /\ isConnected <=> wsRef = "OPEN"
    /\ (op.name \in {"send", "ping"} /\ isConnected) => op.tx

\* C25: a successful delete of memory M removes the single-entity entry of M,
\* invalidates every cached memory list and every cached memory stats entry, and
\* leaves the entries of other resource kinds, such as the search entries,
\* untouched.
C25_DeleteLeavesOtherKinds ==
    [][Succeeded("delete") =>
          /\ MemoryKeysDetail(cop'.id) \in Keys =>
                 ~queries'[MemoryKeysDetail(cop'.id)].exists
          /\ \A k \in Keys :
                 (\/ PartialMatchKey(k, MemoryKeysLists)
                  \/ PartialMatchKey(k, Append(MemoryKeysAll, "stats"))) =>
                     InvalidatedBy(k)
          /\ \A k \in Keys :
                 ~PartialMatchKey(k, MemoryKeysAll) => queries'[k] = queries[k]]_vars

\* C26: a successful record-access of memory M invalidates the single-entity entry
\* of M and every cached most-accessed list, those of every assistant id and the
\* one keyed with no assistant id.
C26_AccessInvalidatesAccessedLists ==
    [][Succeeded("recordAccess") =>
          \A k \in Keys :
              (\/ k = MemoryKeysDetail(cop'.id)
               \/ PartialMatchKey(k, Append(MemoryKeysAll, "accessed"))) =>
                  InvalidatedBy(k)]_vars

\* C28: App's handler on lastMessage processes every well-formed inbound message
\* exactly once and in arrival order, also when several arrive before its effect
\* runs again: each run of the effect handles the one message that arrived since
\* the previous run, so none is skipped, and the message it handles is the latest.
C28_EveryMessageHandledOnce ==
    [][cop'.name = "handled" =>
          /\ appSeen' = appSeen + 1
          /\ cop'.kind = observed[appSeen + 1]]_vars

\* C29: a failed create, update, delete or bulk-delete, whose REST call was answered
\* with an error status, shows exactly one error notification.
C29_OneNotificationPerFailure ==
    (/\ api.caller \in {"create", "update", "delete", "bulkDelete"}
     /\ api.error.kind = "response") =>
        Len(api.toasts) + Len(api.hook) = 1

(* ======================= the search history ============================= *)
\* the position in searchLog of the latest executeSearch call for query q
LastExecuted(q) ==
    CHOOSE i \in 1..Len(searchLog) :
        /\ searchLog[i].query = q
        /\ \A j \in (i + 1)..Len(searchLog) : searchLog[j].query # q

\* C30: after any sequence of executeSearch calls searchHistory holds at most 10
\* requests, no two of them with the same query string, ordered most recently
\* executed first, with the request of the latest call at the head.
C30_HistoryBoundedDistinctRecentFirst ==
    /\ Len(searchHistory) <= 10
    /\ \A i, j \in 1..Len(searchHistory) :
           i # j => searchHistory[i].query # searchHistory[j].query
    /\ searchLog # <<>> =>
           /\ searchHistory # <<>>
           /\ searchHistory[1] = searchLog[Len(searchLog)]
    /\ \A i \in 1..Len(searchHistory) :
           /\ \E n \in 1..Len(searchLog) : searchLog[n].query = searchHistory[i].query
           /\ searchHistory[i] = searchLog[LastExecuted(searchHistory[i].query)]
    /\ \A i, j \in 1..Len(searchHistory) :
           i < j => LastExecuted(searchHistory[i].query) >
                        LastExecuted(searchHistory[j].query)

\* two calls were made on a full history: the latest repeats a query executed
\* before, with another limit, and an older entry has been dropped
C30_Witness ==
    /\ searchCalls = 2
    /\ Len(searchLog) = 12
    /\ Len(searchHistory) = 10
    /\ \E i \in 1..10 : /\ searchLog[i].query = searchLog[12].query
                        /\ searchLog[i] # searchLog[12]
    /\ \E i \in 1..11 : \A j \in 1..10 : searchHistory[j].query # searchLog[i].query

====
